---- MODULE Spec2Model ----
(***************************************************************************)
(* A model of unifi_protect_backup.uploader.VideoUploader: the loop that   *)
(* takes (event, video) pairs from the video queue, generates the rclone   *)
(* destination, pipes the video to rclone and records the backup in the    *)
(* sqlite database.                                                        *)
(*                                                                         *)
(* Strings are sequences of one-character strings; bytes objects are       *)
(* sequences of integers 0..255; text decoded from bytes is a sequence of  *)
(* Unicode code points.  Every `await` of the code is a step of its own.   *)
(***************************************************************************)
EXTENDS Integers, Sequences, FiniteSets, TLC

(* ------------------------------ bounds -------------------------------- *)

\* The number of items the producers put in the queue in one run.
MaxItems == 3

\* The same under FairSpec.
MaxFairItems == 2

(* -------------------------- string helpers ---------------------------- *)

\* str.split(sep) for a one-character separator: the list of parts, cut at
\* every occurrence of the separator.
SplitOn(s, d) ==
    LET IsSep(i) == s[i] = d
        seps == SelectSeq([i \in 1..Len(s) |-> i], IsSep)
        cuts == <<0>> \o seps \o <<Len(s) + 1>>
    IN  [k \in 1..(Len(seps) + 1) |-> SubSeq(s, cuts[k] + 1, cuts[k + 1] - 1)]

\* sep.join(parts)
RECURSIVE Join(_, _)
Join(parts, d) ==
    IF parts = <<>> THEN <<>>
    ELSE IF Len(parts) = 1 THEN Head(parts)
    ELSE Head(parts) \o <<d>> \o Join(Tail(parts), d)

\* How many elements of s equal c.
Count(s, c) == Cardinality({i \in 1..Len(s) : s[i] = c})

\* The decimal digits of a natural number.
RECURSIVE Digits(_)
Digits(n) ==
    LET d == <<"0", "1", "2", "3", "4", "5", "6", "7", "8", "9">>[(n % 10) + 1]
    IN  IF n < 10 THEN <<d>> ELSE Digits(n \div 10) \o <<d>>

\* str() of a float that holds the whole number n: "10.0", "-5.0".
FloatStr(n) ==
    IF n < 0 THEN <<"-">> \o Digits(0 - n) \o <<".", "0">>
    ELSE Digits(n) \o <<".", "0">>

(* --------------------------- configuration ---------------------------- *)

\* Values of rclone_destination (self._rclone_destination).
Roots ==
    { <<"r", ":", "b">>,               \* "r:b"   a remote and a bucket
      <<"r", ":", "b", ":", "c">>,     \* "r:b:c" a path with a colon in it
      <<"b">> }                        \* "b"     a local path, no remote

\* Values of file_structure_format, as a list of literal characters and
\* replacement fields.
Templates ==
    { <<"{camera_name}", "/", "{detection_type}">>,
      <<"{event.id}", "_", "{duration_seconds}">>,
      <<"{bogus}">> }

\* The replacement fields.  format_context has the keys event,
\* duration_seconds, detection_type and camera_name; a field may read an
\* attribute of event.
ContextFields == {"{camera_name}", "{detection_type}", "{duration_seconds}"}
EventFields == {"{event.id}", "{event.type}", "{event.camera_id}"}
UnknownKeys == {"{bogus}"}
UnknownAttrs == {"{event.bogus}"}
IsField(tok) ==
    tok \in ContextFields \cup EventFields \cup UnknownKeys \cup UnknownAttrs

(* ------------------------------ events -------------------------------- *)

Motion == <<"m", "o", "t", "i", "o", "n">>
Person == <<"p", "e", "r", "s", "o", "n">>

\* The events the producers may put in the queue.
Events ==
    { [id |-> <<"e", "1">>, type |-> Motion, camera_id |-> <<"c", "1">>,
       start |-> 10, end |-> 20, smart_detect_types |-> <<>>],
      [id |-> <<"e", "2">>, type |-> Motion, camera_id |-> <<"c", "2">>,
       start |-> 20, end |-> 15, smart_detect_types |-> <<Person>>] }

\* The video of an item: its bytes.
Videos == { <<1, 2>> }

\* What get_camera_name answers when it answers.
CameraName(camera_id) ==
    IF camera_id = <<"c", "1">>
    THEN <<"F", "r", "o", "n", "t", " ", "D", "o", "o", "r">>
    ELSE <<"a", ":", "b">>

(* ---------------------- _generate_file_path --------------------------- *)

Letters ==
    {"a", "b", "c", "d", "e", "f", "g", "h", "i", "j", "k", "l", "m", "n",
     "o", "p", "q", "r", "s", "t", "u", "v", "w", "x", "y", "z",
     "A", "B", "C", "D", "E", "F", "G", "H", "I", "J", "K", "L", "M", "N",
     "O", "P", "Q", "R", "S", "T", "U", "V", "W", "X", "Y", "Z"}
DigitChars == {"0", "1", "2", "3", "4", "5", "6", "7", "8", "9"}
\* Letters and digits outside ASCII: "U+00E9" stands for the one character
\* e-acute, "U+0663" for the Arabic-Indic digit three.
UnicodeWordChars == {"U+00E9", "U+0663"}

\* \w of a str pattern: Unicode letters and digits and the underscore.
IsWordChar(c) == c \in Letters \cup DigitChars \cup UnicodeWordChars \cup {"_"}

\* What re.sub(r'[^\w\-_\.\(\)/ ]', '', ...) keeps.
Kept(c) == IsWordChar(c) \/ c \in {"-", "_", ".", "(", ")", "/", " "}
Sanitize(s) == SelectSeq(s, Kept)

\* "detection_type" of format_context.  smart_detect_types is a list; the
\* empty list is the falsy case of the conditional expression.
DetectionType_AlwaysParens(event) ==
    event.type \o <<" ", "(">> \o Join(event.smart_detect_types, " ") \o <<")">>
DetectionType(event) ==
    IF event.smart_detect_types # <<>>
    THEN event.type \o <<" ", "(">> \o Join(event.smart_detect_types, " ") \o <<")">>
    ELSE event.type

\* "duration_seconds" of format_context: (end - start).total_seconds().
DurationSeconds_Abs(event) ==
    IF event.end < event.start THEN event.start - event.end
    ELSE event.end - event.start
DurationSeconds(event) == event.end - event.start

\* The value a known replacement field is replaced by.
FieldValue(tok, event, camera_name) ==
    CASE tok = "{camera_name}"      -> camera_name
      [] tok = "{detection_type}"   -> DetectionType(event)
      [] tok = "{duration_seconds}" -> FloatStr(DurationSeconds(event))
      [] tok = "{event.id}"         -> event.id
      [] tok = "{event.type}"       -> event.type
      [] tok = "{event.camera_id}"  -> event.camera_id

\* str.format(**format_context): the first field that cannot be replaced
\* raises; the result is [ok, value] or [ok, kind].
RECURSIVE Format_Lenient(_, _, _)
Format_Lenient(tpl, event, camera_name) ==
    IF tpl = <<>> THEN [ok |-> TRUE, value |-> <<>>]
    ELSE LET tok == Head(tpl)
             rest == Format_Lenient(Tail(tpl), event, camera_name)
             this == IF tok \in UnknownKeys \cup UnknownAttrs THEN <<>>
                     ELSE IF IsField(tok)
                          THEN FieldValue(tok, event, camera_name)
                          ELSE <<tok>>
         IN  [ok |-> TRUE, value |-> this \o rest.value]
RECURSIVE Format(_, _, _)
Format(tpl, event, camera_name) ==
    IF tpl = <<>> THEN [ok |-> TRUE, value |-> <<>>]
    ELSE LET tok == Head(tpl)
         IN  IF tok \in UnknownKeys THEN [ok |-> FALSE, kind |-> "KeyError"]
             ELSE IF tok \in UnknownAttrs
                  THEN [ok |-> FALSE, kind |-> "AttributeError"]
             ELSE LET rest == Format(Tail(tpl), event, camera_name)
                      this == IF IsField(tok)
                              THEN FieldValue(tok, event, camera_name)
                              ELSE <<tok>>
                  IN  IF rest.ok
                      THEN [ok |-> TRUE, value |-> this \o rest.value]
                      ELSE rest

\* str(pathlib.Path(s)) on a POSIX system: empty and "." components are
\* dropped, a leading "/" is kept (exactly two are kept as two), the empty
\* path is ".".
PathStr(s) ==
    LET parts == SplitOn(s, "/")
        IsPart(p) == p # <<>> /\ p # <<".">>
        body == Join(SelectSeq(parts, IsPart), "/")
        lead == IF s # <<>> /\ s[1] = "/"
                THEN IF Len(s) >= 2 /\ s[2] = "/" /\ (Len(s) = 2 \/ s[3] # "/")
                     THEN <<"/", "/">>
                     ELSE <<"/">>
                ELSE <<>>
    IN  IF lead = <<>> /\ body = <<>> THEN <<".">> ELSE lead \o body

\* _generate_file_path once the camera name is known.
GenerateFilePath(rclone_destination, tpl, event, camera_name) ==
    LET f == Format(tpl, event, camera_name)
    IN  IF f.ok
        THEN [ok |-> TRUE,
              value |-> PathStr(rclone_destination \o <<"/">> \o Sanitize(f.value))]
        ELSE f

(* --------------------------- _upload_video ---------------------------- *)

\* What the rclone process may leave behind.
ExitCodes == {0, 1, 2}
Outputs == { <<>>, <<100>>, <<195, 169>>, <<255>> }

\* bytes.decode(): UTF-8.  The bytes of the model are ASCII bytes, the lead
\* bytes of two-byte sequences, continuation bytes and 255, which no
\* UTF-8 text contains.
IsContinuation(b) == 128 <= b /\ b <= 191
RECURSIVE DecodeOK(_)
DecodeOK(bs) ==
    IF bs = <<>> THEN TRUE
    ELSE IF Head(bs) < 128 THEN DecodeOK(Tail(bs))
    ELSE IF 194 <= Head(bs) /\ Head(bs) <= 223
         THEN Len(bs) >= 2 /\ IsContinuation(bs[2]) /\ DecodeOK(Tail(Tail(bs)))
    ELSE FALSE
RECURSIVE Decode(_)
Decode(bs) ==
    IF bs = <<>> THEN <<>>
    ELSE IF Head(bs) < 128 THEN <<Head(bs)>> \o Decode(Tail(bs))
    ELSE <<(Head(bs) - 192) * 64 + (bs[2] - 128)>> \o Decode(Tail(Tail(bs)))

\* What _upload_video does with the finished process: returns, or raises.
UploadResult_IgnoreExit(returncode, stdout, stderr) == [ok |-> TRUE]
UploadResult(returncode, stdout, stderr) ==
    IF ~(DecodeOK(stdout) /\ DecodeOK(stderr))
    THEN [ok |-> FALSE, kind |-> "UnicodeDecodeError", args |-> <<>>]
    ELSE IF returncode = 0
    THEN [ok |-> TRUE]
    ELSE [ok |-> FALSE, kind |-> "SubprocessException",
          args |-> <<Decode(stdout), Decode(stderr), returncode>>]

(* ------------------------------ state --------------------------------- *)

VARIABLES
    rclone_destination,  \* self._rclone_destination
    file_structure_format, \* self._file_structure_format
    queue,        \* self._video_queue: the items waiting, oldest first
    pc,           \* where start() is
    event,        \* the local variable event of start(), or NoEvent
    video,        \* the local variable video of start()
    destination,  \* the local variable destination of start()
    exc,          \* the exception being handled (e of the except clause)
    proc,         \* the rclone process that finished last in this iteration
    committed,    \* the rows of events and backups every reader sees
    pending,      \* the rows of the connection's open transaction
    produced,     \* how many items the producers have put in the queue
    hist,         \* history: one record per dequeued item, in dequeue order:
                  \* its calls, the destination resolved for it (dest) and
                  \* the destination rclone was given (sent)
    xferLog       \* history: the event ids rclone was spawned for, in order

vars == <<rclone_destination, file_structure_format, queue, pc, event, video,
          destination, exc, proc, committed, pending, produced, hist, xferLog>>

NoEvent == [unbound |-> TRUE]
NoExc == [kind |-> "none", phase |-> "none", args |-> <<>>]
NoProc == [returncode |-> -1]
NoRows == [events |-> <<>>, backups |-> <<>>]

\* The item being processed: the last one dequeued.
cur == Len(hist)

\* A counter of the history; the code never reaches 2.
Inc(n) == IF n < 2 THEN n + 1 ELSE n

Init ==
    /\ rclone_destination \in Roots
    /\ file_structure_format \in Templates
    /\ queue = <<>>
    /\ pc = "idle"
    /\ event = NoEvent
    /\ video = <<>>
    /\ destination = <<>>
    /\ exc = NoExc
    /\ proc = NoProc
    /\ committed = NoRows
    /\ pending = NoRows
    /\ produced = 0
    /\ hist = <<>>
    /\ xferLog = <<>>

(* ------------------------------ start() -------------------------------- *)

\* `except Exception`: the classes the handler of start() catches.  All the
\* errors of the model derive from Exception.
ExceptionSubclasses ==
    {"QueueError", "CameraLookupError", "KeyError", "AttributeError",
     "UnicodeDecodeError", "SubprocessException", "ValueError",
     "OperationalError"}
Catches_OnlySubprocess(kind) == kind = "SubprocessException"
Catches(kind) == kind \in ExceptionSubclasses

\* An exception raised in the try block of start(); h is the history with
\* the step's own entries made.
Raise(kind, phase, args, h) ==
    /\ exc' = [kind |-> kind, phase |-> phase, args |-> args]
    /\ pc' = IF Catches(kind) THEN "handling" ELSE "crashed"
    /\ hist' = IF phase = "fetching" THEN h
               ELSE [h EXCEPT ![Len(h)].failedIn = phase]

\* `await self._video_queue.get()` returns only when start() waits for it.
CanGet_Always(p) == TRUE
CanGet(p) == p = "idle"

\* A producer puts an item in the queue (sn numbers the items: history);
\* n bounds the items of a run.
ProduceUpTo(n) ==
    /\ produced < n
    /\ \E ev \in Events, v \in Videos :
          queue' = Append(queue, [event |-> ev, video |-> v, sn |-> produced + 1])
    /\ produced' = produced + 1
    /\ UNCHANGED <<rclone_destination, file_structure_format, pc, event, video,
                   destination, exc, proc, committed, pending, hist, xferLog>>

Produce == ProduceUpTo(MaxItems)

\* Line 47: the queue yields an item.
Get ==
    /\ CanGet(pc)
    /\ queue # <<>>
    /\ event' = Head(queue).event
    /\ video' = Head(queue).video
    /\ queue' = Tail(queue)
    /\ hist' = Append(hist, [sn |-> Head(queue).sn, id |-> Head(queue).event.id,
                             resolves |-> 0, spawns |-> 0, writes |-> 0,
                             exit |-> "none", status |-> "resolving",
                             failedIn |-> "none", dest |-> <<>>, sent |-> <<>>])
    /\ pc' = "resolving"
    /\ UNCHANGED <<rclone_destination, file_structure_format, destination, exc,
                   proc, committed, pending, produced, xferLog>>

\* Line 47: the queue's get raises.
GetFail ==
    /\ pc = "idle"
    /\ Raise("QueueError", "fetching", <<>>, hist)
    /\ UNCHANGED <<rclone_destination, file_structure_format, queue, event, video,
                   destination, proc, committed, pending, produced, xferLog>>

\* Line 51: `destination = await self._generate_file_path(event)` binds what
\* the call returned, which depends on nothing the loop did before.
ResolvedDestination_Numbered(r) == r.value \o <<"_">> \o Digits(Len(hist))
ResolvedDestination(r) == r.value

\* Line 51: _generate_file_path; get_camera_name answers or raises.
Resolve ==
    /\ pc = "resolving"
    /\ \E found \in BOOLEAN :
          LET h == [hist EXCEPT ![cur].resolves = Inc(@)]
              r == GenerateFilePath(rclone_destination, file_structure_format,
                                    event, CameraName(event.camera_id))
          IN  IF ~found
              THEN /\ Raise("CameraLookupError", "resolving", <<>>, h)
                   /\ UNCHANGED destination
              ELSE IF ~r.ok
              THEN /\ Raise(r.kind, "resolving", <<>>, h)
                   /\ UNCHANGED destination
              ELSE /\ destination' = ResolvedDestination(r)
                   /\ pc' = "transferring"
                   /\ hist' = [h EXCEPT ![cur].status = "transferring",
                                         ![cur].dest = ResolvedDestination(r)]
                   /\ UNCHANGED exc
    /\ UNCHANGED <<rclone_destination, file_structure_format, queue, event, video,
                   proc, committed, pending, produced, xferLog>>

\* Lines 54 and 77-89: rclone is spawned with the destination, is given the
\* video and ends with an exit code and its output.
Upload ==
    /\ pc = "transferring"
    /\ \E rc \in ExitCodes, out \in Outputs, err \in Outputs :
          LET h == [hist EXCEPT ![cur].spawns = Inc(@),
                                ![cur].exit = IF rc = 0 THEN "zero" ELSE "nonzero",
                                ![cur].sent = destination]
              r == UploadResult(rc, out, err)
          IN  /\ proc' = [returncode |-> rc, stdout |-> out, stderr |-> err,
                          destination |-> destination, stdin |-> video]
              /\ IF r.ok
                 THEN /\ pc' = "insert_events"
                      /\ hist' = [h EXCEPT ![cur].status = "recording"]
                      /\ UNCHANGED exc
                 ELSE Raise(r.kind, "transferring", r.args, h)
    /\ xferLog' = Append(xferLog, event.id)
    /\ UNCHANGED <<rclone_destination, file_structure_format, queue, event, video,
                   destination, committed, pending, produced>>

(* -------------------------- _update_database -------------------------- *)

\* The rows of the two INSERT statements; `by` is history: the number of the
\* dequeued item the row was written for.
EventRow(ev, by) ==
    [id |-> ev.id, type |-> ev.type, camera_id |-> ev.camera_id,
     start |-> ev.start, end |-> ev.end, by |-> by]
BackupRow(ev, remote, file_path, by) ==
    [id |-> ev.id, remote |-> remote, path |-> file_path, by |-> by]

\* Line 101: `remote, file_path = str(destination).split(":")` unpacks a
\* list of exactly two parts.
SplitDestination_Swapped(dest) ==
    LET parts == SplitOn(dest, ":")
    IN  IF Len(parts) = 2
        THEN [ok |-> TRUE, remote |-> parts[2], file_path |-> parts[1]]
        ELSE [ok |-> FALSE, kind |-> "ValueError"]
SplitDestination(dest) ==
    LET parts == SplitOn(dest, ":")
    IN  IF Len(parts) = 2
        THEN [ok |-> TRUE, remote |-> parts[1], file_path |-> parts[2]]
        ELSE [ok |-> FALSE, kind |-> "ValueError"]

\* Line 108: commit() makes the rows of the open transaction visible.
CommitRows_EventsOnly(rows, txn) ==
    [events |-> rows.events \o txn.events, backups |-> rows.backups]
CommitRows_Dedup(rows, txn) ==
    LET NewEvent(r) == \A k \in 1..Len(rows.events) : rows.events[k].id # r.id
        NewBackup(r) == \A k \in 1..Len(rows.backups) : rows.backups[k].id # r.id
    IN  [events |-> rows.events \o SelectSeq(txn.events, NewEvent),
         backups |-> rows.backups \o SelectSeq(txn.backups, NewBackup)]
CommitRows(rows, txn) ==
    [events |-> rows.events \o txn.events,
     backups |-> rows.backups \o txn.backups]

\* A statement or a commit the database refuses: the statement changes
\* nothing; the engine keeps the open transaction or rolls it back.
DbError(phase, h) ==
    /\ Raise("OperationalError", phase, <<>>, h)
    /\ \E kept \in BOOLEAN : pending' = IF kept THEN pending ELSE NoRows

\* Lines 95-99: INSERT INTO events.
InsertEvents ==
    /\ pc = "insert_events"
    /\ LET h == [hist EXCEPT ![cur].writes = Inc(@)]
       IN  \/ /\ pending' = [pending EXCEPT
                                !.events = Append(@, EventRow(event, cur))]
              /\ pc' = "insert_backups"
              /\ hist' = h
              /\ UNCHANGED exc
           \/ DbError("recording", h)
    /\ proc' = NoProc
    /\ UNCHANGED <<rclone_destination, file_structure_format, queue, event, video,
                   destination, committed, produced, xferLog>>

\* Lines 101-106: the destination is split and INSERT INTO backups runs.
InsertBackups ==
    /\ pc = "insert_backups"
    /\ LET d == SplitDestination(destination)
       IN  IF ~d.ok
           THEN /\ Raise(d.kind, "recording", <<>>, hist)
                /\ UNCHANGED pending
           ELSE \/ /\ pending' = [pending EXCEPT
                                     !.backups = Append(@, BackupRow(event,
                                                   d.remote, d.file_path, cur))]
                   /\ pc' = "commit"
                   /\ UNCHANGED <<exc, hist>>
                \/ DbError("recording", hist)
    /\ UNCHANGED <<rclone_destination, file_structure_format, queue, event, video,
                   destination, proc, committed, produced, xferLog>>

\* Line 108: commit.
Commit ==
    /\ pc = "commit"
    /\ \/ /\ committed' = CommitRows(committed, pending)
          /\ pending' = NoRows
          /\ pc' = "idle"
          /\ hist' = [hist EXCEPT ![cur].status = "committed"]
          /\ UNCHANGED exc
       \/ /\ DbError("recording", hist)
          /\ UNCHANGED committed
    /\ UNCHANGED <<rclone_destination, file_structure_format, queue, event, video,
                   destination, proc, produced, xferLog>>

(* ------------------------- the except clause --------------------------- *)

\* Lines 59-61 log and nothing else: the queue is left as it is, and the
\* while loop goes back to line 47.
AfterAbandon_Requeue(q, item) == Append(q, item)
AfterAbandon(q, item) == q
HandlerNextPc_Reraise(phase) == "crashed"
HandlerNextPc_Retry(phase) == IF phase = "fetching" THEN "idle" ELSE "resolving"
HandlerNextPc(phase) == "idle"

\* Lines 59-61: the handler reads event.id; with event not yet bound that
\* raises UnboundLocalError out of start().
HandleException ==
    /\ pc = "handling"
    /\ IF event = NoEvent
       THEN /\ pc' = "crashed"
            /\ exc' = [exc EXCEPT !.kind = "UnboundLocalError"]
            /\ UNCHANGED <<queue, hist>>
       ELSE /\ pc' = HandlerNextPc(exc.phase)
            /\ exc' = NoExc
            /\ queue' = IF exc.phase = "fetching" THEN queue
                        ELSE AfterAbandon(queue, [event |-> event, video |-> video,
                                                  sn |-> hist[cur].sn])
            /\ hist' = IF exc.phase = "fetching" THEN hist
                       ELSE [hist EXCEPT ![cur].status = "dropped"]
    /\ proc' = NoProc
    /\ UNCHANGED <<rclone_destination, file_structure_format, event, video,
                   destination, committed, pending, produced, xferLog>>

Next ==
    \/ Produce
    \/ Get
    \/ GetFail
    \/ Resolve
    \/ Upload
    \/ InsertEvents
    \/ InsertBackups
    \/ Commit
    \/ HandleException

Spec == Init /\ [][Next]_vars

(* ----------------------------- the claims ----------------------------- *)

AllIds == {e.id : e \in Events}
CountId(rows, id) == Cardinality({i \in 1..Len(rows) : rows[i].id = id})
RowsBy(rows, i) == {k \in 1..Len(rows) : rows[k].by = i}
Ids(rows) == [k \in 1..Len(rows) |-> rows[k].id]
ProcessingPhases == {"resolving", "transferring", "recording"}
InFlight == {"resolving", "transferring", "recording"}
NothingWrittenFor(i) ==
    /\ RowsBy(committed.events, i) = {} /\ RowsBy(committed.backups, i) = {}
    /\ RowsBy(pending.events, i) = {} /\ RowsBy(pending.backups, i) = {}
DistinctIds ==
    \A i, j \in 1..Len(hist) : i # j => hist[i].id # hist[j].id
RECURSIVE IsSubseq(_, _)
IsSubseq(a, b) ==
    IF a = <<>> THEN TRUE
    ELSE IF b = <<>> THEN FALSE
    ELSE IF Head(a) = Head(b) THEN IsSubseq(Tail(a), Tail(b))
    ELSE IsSubseq(a, Tail(b))

\* C1: for every event identifier the committed rows of events and the
\* committed rows of backups are equally many: no committed EventRecord
\* without its BackupRecord and none the other way round.
C1_LedgerPairing ==
    \A id \in AllIds :
        CountId(committed.events, id) = CountId(committed.backups, id)

\* C2: no row written while an item was processed is ever committed when
\* that item's processing raised an error.
C2_FailedItemNeverCommitted ==
    \A i \in 1..Len(hist) :
        hist[i].failedIn # "none" =>
            /\ RowsBy(committed.events, i) = {}
            /\ RowsBy(committed.backups, i) = {}

\* C3: an error raised while an item is resolved, transferred or recorded
\* is caught by the handler of the loop, never ends start(), and the loop
\* goes back to waiting on the queue.
C3_FailureIsolation ==
    /\ pc = "crashed" => exc.phase = "fetching"
    /\ exc.phase \in ProcessingPhases => pc = "handling"
    /\ (cur > 0 /\ hist[cur].status = "dropped") =>
           \/ pc = "idle"
           \/ pc = "handling" /\ exc.phase = "fetching"
C3_Witness ==
    /\ pc = "idle"
    /\ \A ph \in ProcessingPhases :
          \E i \in 1..Len(hist) :
              hist[i].failedIn = ph /\ hist[i].status = "dropped"

\* C4: when rclone exits nonzero for an item, no INSERT is executed and no
\* row is written for it, the loop goes on; when the first of two items
\* fails at transfer and the second succeeds, the committed ledger holds
\* the rows of the second item only.
C4_TransferFailureSkipsRecording ==
    /\ \A i \in 1..Len(hist) :
          hist[i].exit = "nonzero" =>
              /\ hist[i].writes = 0
              /\ NothingWrittenFor(i)
              /\ hist[i].failedIn = "transferring"
              /\ i = cur => pc \in {"handling", "idle"}
    /\ (Len(hist) = 2 /\ hist[1].exit = "nonzero" /\ hist[2].status = "committed") =>
          /\ Len(committed.events) = 1 /\ committed.events[1].by = 2
          /\ Len(committed.backups) = 1 /\ committed.backups[1].by = 2
C4_Witness ==
    /\ Len(hist) = 2
    /\ hist[1].exit = "nonzero"
    /\ hist[1].status = "dropped"
    /\ hist[2].status = "committed"

\* C5: with pairwise distinct event identifiers, an event that completed
\* resolve, transfer and record has exactly one committed row in events and
\* exactly one in backups, and has none in either until its commit.
C5_ExactlyOnce ==
    DistinctIds =>
        \A i \in 1..Len(hist) :
            /\ hist[i].status = "committed" =>
                  /\ CountId(committed.events, hist[i].id) = 1
                  /\ CountId(committed.backups, hist[i].id) = 1
            /\ hist[i].status \in InFlight =>
                  /\ CountId(committed.events, hist[i].id) = 0
                  /\ CountId(committed.backups, hist[i].id) = 0
C5_Witness ==
    /\ DistinctIds
    /\ Len(hist) = 2
    /\ hist[1].failedIn = "recording"
    /\ hist[2].status = "committed"
    /\ Len(committed.events) = 2

\* C6: _upload_video raises nothing exactly when rclone's exit status is 0;
\* for a nonzero status it raises an error carrying the captured stdout
\* text, the captured stderr text and the exit code, and the ledger is left
\* untouched.
C6_TransferClassification ==
    proc # NoProc =>
        /\ (exc = NoExc) <=> (proc.returncode = 0)
        /\ proc.returncode # 0 =>
              /\ exc.kind = "SubprocessException"
              /\ DecodeOK(proc.stdout) /\ DecodeOK(proc.stderr)
              /\ exc.args = <<Decode(proc.stdout), Decode(proc.stderr),
                              proc.returncode>>
              /\ NothingWrittenFor(cur)

\* C7 as stated: once the loop is idle again, the event identifiers of the
\* transfer attempts are the dequeue order, and the identifiers of the
\* committed backups are a subsequence of it.
C7_TransfersEqualDequeueOrder ==
    /\ pc = "idle" => xferLog = Ids(hist)
    /\ IsSubseq(Ids(committed.backups), Ids(hist))

\* C7 as amended: the event identifiers of the transfer attempts are the
\* dequeue order without the items that failed in resolving (always a
\* subsequence of the dequeue order), and the identifiers of the committed
\* backups, written in increasing order of dequeue, are a subsequence of
\* the dequeue order.
ResolvedOk(h) == h.failedIn # "resolving"
C7_FifoOrder ==
    /\ IsSubseq(xferLog, Ids(hist))
    /\ pc = "idle" => xferLog = Ids(SelectSeq(hist, ResolvedOk))
    /\ IsSubseq(Ids(committed.backups), Ids(hist))
    /\ \A k \in 1..Len(committed.backups) :
          /\ committed.backups[k].by \in 1..Len(hist)
          /\ committed.backups[k].id = hist[committed.backups[k].by].id
          /\ \A m \in 1..(k - 1) :
                committed.backups[m].by < committed.backups[k].by
C7_Witness ==
    /\ pc = "idle"
    /\ Len(hist) = 3
    /\ hist[1].status = "committed"
    /\ hist[2].failedIn = "resolving"
    /\ hist[3].status = "committed"
    /\ hist[1].id # hist[3].id
    /\ Len(xferLog) = 2

\* C8: at most one item is being resolved, transferred or recorded; every
\* item dequeued before the current one has been committed or dropped,
\* whatever the producers have put in the queue meanwhile.
C8_Sequential ==
    /\ Cardinality({i \in 1..Len(hist) : hist[i].status \in InFlight}) <= 1
    /\ \A i \in 1..(Len(hist) - 1) : hist[i].status \in {"committed", "dropped"}
C8_Witness ==
    /\ pc \in {"transferring", "insert_backups"}
    /\ Len(hist) = 1
    /\ hist[1].status \in InFlight
    /\ Len(queue) >= 2

\* C9: a dequeued item is resolved at most once, rclone is spawned for it at
\* most once, the ledger write is attempted for it at most once, and no item
\* that was dequeued is in the queue again.
C9_NoRetry ==
    /\ \A i \in 1..Len(hist) :
          /\ hist[i].resolves <= 1
          /\ hist[i].spawns <= 1
          /\ hist[i].writes <= 1
          /\ \A j \in 1..Len(hist) : hist[i].sn = hist[j].sn => i = j
          /\ \A k \in 1..Len(queue) : queue[k].sn # hist[i].sn
    /\ Len(xferLog) <= Len(hist)
C9_Witness ==
    /\ pc = "idle"
    /\ Len(hist) = 2
    /\ hist[1].failedIn = "transferring"
    /\ hist[1].status = "dropped"
    /\ hist[2].failedIn = "recording"
    /\ hist[2].status = "dropped"
    /\ queue = <<>>

\* C10: a destination with at least one ":" is split at its first ":", the
\* remote being the text before it and the path all the text after it, so
\* that remote + ":" + path is the destination; a destination with two or
\* more ":" is recorded and does not fail.
FirstIndex(s, c) ==
    CHOOSE i \in 1..Len(s) : s[i] = c /\ \A j \in 1..(i - 1) : s[j] # c
BeforeFirst(s, c) ==
    IF Count(s, c) = 0 THEN s ELSE SubSeq(s, 1, FirstIndex(s, c) - 1)
AfterFirst(s, c) ==
    IF Count(s, c) = 0 THEN <<>> ELSE SubSeq(s, FirstIndex(s, c) + 1, Len(s))
C10_SplitOnFirstColon ==
    Count(destination, ":") >= 1 =>
        /\ exc.kind # "ValueError"
        /\ pc = "commit" =>
              LET b == pending.backups[Len(pending.backups)]
              IN  /\ b.remote = BeforeFirst(destination, ":")
                  /\ b.path = AfterFirst(destination, ":")
                  /\ b.remote \o <<":">> \o b.path = destination

(* ------------------- _generate_file_path on its own -------------------- *)

\* The length of the templates of PathSpec.
MaxTplLen == 3

Vehicle == <<"v", "e", "h", "i", "c", "l", "e">>

\* What a template of PathSpec is made of: literal characters (ASCII,
\* non-ASCII, punctuation) and replacement fields.
PathTokens ==
    {"a", "U+00E9", ":", "/", ".", "{camera_name}", "{detection_type}",
     "{duration_seconds}", "{bogus}"}
PathTemplates == UNION {[1..k -> PathTokens] : k \in 0..MaxTplLen}
PathRoots == { <<"r", ":", "b">>, <<"/", "m">> }
PathEvents ==
    Events \cup
    { [id |-> <<"e", "3">>, type |-> Motion, camera_id |-> <<"c", "1">>,
       start |-> 5, end |-> 5, smart_detect_types |-> <<Person, Vehicle>>] }

\* start() has taken one item from the queue and is about to call
\* _generate_file_path, under any configuration.
PathInit ==
    /\ rclone_destination \in PathRoots
    /\ file_structure_format \in PathTemplates
    /\ queue = <<>>
    /\ pc = "resolving"
    /\ event \in PathEvents
    /\ video \in Videos
    /\ destination = <<>>
    /\ exc = NoExc
    /\ proc = NoProc
    /\ committed = NoRows
    /\ pending = NoRows
    /\ produced = 1
    /\ hist = << [sn |-> 1, id |-> event.id, resolves |-> 0, spawns |-> 0,
                  writes |-> 0, exit |-> "none", status |-> "resolving",
                  failedIn |-> "none", dest |-> <<>>, sent |-> <<>>] >>
    /\ xferLog = <<>>

PathNext == Resolve

PathSpec == PathInit /\ [][PathNext]_vars

\* The part of a destination after the configured root and its "/".
AfterRoot(dest) ==
    IF Len(dest) > Len(rclone_destination) + 1
    THEN SubSeq(dest, Len(rclone_destination) + 2, Len(dest))
    ELSE <<>>

\* The characters of [A-Za-z0-9\-_.()/ ].
AsciiAllowed(c) ==
    c \in Letters \cup DigitChars \cup {"-", "_", ".", "(", ")", "/", " "}

\* C11: the part of the returned path after the root consists only of
\* characters of [A-Za-z0-9\-_.()/ ] and is the substituted string with
\* exactly the other characters deleted, the kept ones in their order.
C11_SanitizedToAscii ==
    pc = "transferring" =>
        LET f == Format(file_structure_format, event, CameraName(event.camera_id))
            rest == AfterRoot(destination)
        IN  /\ \A i \in 1..Len(rest) : AsciiAllowed(rest[i])
            /\ rest = SelectSeq(f.value, AsciiAllowed)

\* C12: detection_type is the event type alone when the event has no
\* smart-detection labels, and otherwise the type, " (", the labels joined
\* by single spaces in their order, and ")"; with the template
\* "{camera_name}/{detection_type}", type "motion", no labels and the camera
\* name "Front Door" the path is the root followed by "/Front Door/motion".
RECURSIVE SpaceJoined(_)
SpaceJoined(labels) ==
    IF Len(labels) = 1 THEN labels[1]
    ELSE labels[1] \o <<" ">> \o SpaceJoined(Tail(labels))
C12_DetectionType ==
    pc = "transferring" =>
        /\ file_structure_format = <<"{detection_type}">> =>
              AfterRoot(destination) =
                  IF Len(event.smart_detect_types) = 0
                  THEN event.type
                  ELSE event.type \o <<" ", "(">>
                       \o SpaceJoined(event.smart_detect_types) \o <<")">>
        /\ ( /\ file_structure_format = <<"{camera_name}", "/", "{detection_type}">>
             /\ event.type = <<"m", "o", "t", "i", "o", "n">>
             /\ event.smart_detect_types = <<>>
             /\ event.camera_id = <<"c", "1">> ) =>
              destination = rclone_destination
                  \o <<"/", "F", "r", "o", "n", "t", " ", "D", "o", "o", "r",
                       "/", "m", "o", "t", "i", "o", "n">>
C12_Witness ==
    /\ pc = "transferring"
    /\ file_structure_format = <<"{detection_type}">>
    /\ Len(event.smart_detect_types) = 2
    /\ AfterRoot(destination) =
          <<"m", "o", "t", "i", "o", "n", " ", "(", "p", "e", "r", "s", "o", "n",
            " ", "v", "e", "h", "i", "c", "l", "e", ")">>

\* C13: when the template names a field that format_context does not have,
\* or the camera-name lookup fails, resolving fails with an error the loop
\* handles, rclone is not spawned and no INSERT is executed for that item,
\* and the loop goes on with the next item.
NamesUnknownField(tpl) == \E k \in 1..Len(tpl) : tpl[k] \in UnknownKeys
C13_ResolverFailureStopsItem ==
    /\ exc.phase = "resolving" =>
          /\ pc = "handling"
          /\ exc.kind \in {"KeyError", "AttributeError", "CameraLookupError"}
    /\ \A i \in 1..Len(hist) :
          hist[i].failedIn = "resolving" =>
              /\ hist[i].spawns = 0 /\ hist[i].sent = <<>>
              /\ hist[i].writes = 0
              /\ NothingWrittenFor(i)
              /\ i = cur => pc \in {"handling", "idle"}
              /\ i < cur => hist[i].status = "dropped"
    /\ NamesUnknownField(file_structure_format) =>
          /\ xferLog = <<>> /\ committed = NoRows /\ pending = NoRows
          /\ \A i \in 1..Len(hist) :
                /\ hist[i].status \in {"resolving", "dropped"}
                /\ hist[i].failedIn \in {"none", "resolving"}
C13_Witness ==
    /\ NamesUnknownField(file_structure_format)
    /\ Len(hist) = 3
    /\ hist[1].status = "dropped" /\ hist[2].status = "dropped"
    /\ hist[3].status = "resolving"
    /\ exc = NoExc

\* C14: when the queue yields the same event identifier twice and both
\* deliveries complete without error, the committed ledger holds two rows
\* of events and two rows of backups with that identifier: each completed
\* delivery has its own committed row in each table.
CommittedWith(id) ==
    {i \in 1..Len(hist) : hist[i].id = id /\ hist[i].status = "committed"}
C14_NoIdempotencyCheck ==
    /\ \A i \in 1..Len(hist) :
          hist[i].status = "committed" =>
              /\ Cardinality(RowsBy(committed.events, i)) = 1
              /\ Cardinality(RowsBy(committed.backups, i)) = 1
    /\ \A id \in AllIds :
          /\ CountId(committed.events, id) >= Cardinality(CommittedWith(id))
          /\ CountId(committed.backups, id) >= Cardinality(CommittedWith(id))
    /\ ( /\ Len(hist) = 2
         /\ hist[1].id = hist[2].id
         /\ hist[1].status = "committed" /\ hist[2].status = "committed" ) =>
          /\ CountId(committed.events, hist[1].id) = 2
          /\ CountId(committed.backups, hist[1].id) = 2
C14_Witness ==
    /\ Len(hist) = 2
    /\ hist[1].id = hist[2].id
    /\ hist[1].status = "committed" /\ hist[2].status = "committed"
    /\ Len(committed.events) = 2 /\ Len(committed.backups) = 2

\* C15: two calls of _generate_file_path for the same event, under the same
\* template and root and with the same camera name, return the same path,
\* whatever items were processed between them, with or without error.
C15_ResolverDeterministic ==
    \A i, j \in 1..Len(hist) :
        ( /\ hist[i].id = hist[j].id
          /\ hist[i].dest # <<>>
          /\ hist[j].dest # <<>> ) => hist[i].dest = hist[j].dest
C15_Witness ==
    /\ Len(hist) = 3
    /\ hist[1].id = hist[3].id
    /\ hist[2].id # hist[1].id
    /\ hist[1].status = "committed"
    /\ hist[2].failedIn = "transferring"
    /\ hist[3].dest # <<>>
    /\ hist[3].dest = hist[1].dest

\* C16: every commit makes visible exactly one new row of events and one
\* new row of backups, both with the event identifier of the item being
\* recorded, and leaves the rows committed before as they were; no commit
\* publishes a row written while another item was processed.
AppendsOne(before, after, id, by) ==
    /\ Len(after) = Len(before) + 1
    /\ SubSeq(after, 1, Len(before)) = before
    /\ after[Len(after)].id = id
    /\ after[Len(after)].by = by
C16_CommitGranularity ==
    [][committed' # committed =>
          /\ pc = "commit"
          /\ AppendsOne(committed.events, committed'.events, event.id, cur)
          /\ AppendsOne(committed.backups, committed'.backups, event.id, cur)]_vars

(* --------------------------- the loop, fair ---------------------------- *)

\* The loop under one configuration that lets an item fail in every phase
\* and lets it succeed.  The queue's get yields an item whenever the queue
\* holds one; a coroutine that can take its next step is run by the event
\* loop, and the camera lookup, the rclone process and the database calls
\* each return, with a result or an error.
FairInit ==
    /\ Init
    /\ rclone_destination = <<"r", ":", "b">>
    /\ file_structure_format = <<"{camera_name}", "/", "{detection_type}">>

FairProduce == ProduceUpTo(MaxFairItems)

FairNext ==
    \/ FairProduce
    \/ Get
    \/ Resolve
    \/ Upload
    \/ InsertEvents
    \/ InsertBackups
    \/ Commit
    \/ HandleException

FairSpec ==
    /\ FairInit
    /\ [][FairNext]_vars
    /\ WF_vars(Get)
    /\ WF_vars(Resolve)
    /\ WF_vars(Upload)
    /\ WF_vars(InsertEvents)
    /\ WF_vars(InsertBackups)
    /\ WF_vars(Commit)
    /\ WF_vars(HandleException)

\* C17: every item placed in the queue is eventually dequeued and ends
\* either recorded in the ledger or dropped, however many items before it
\* failed.
Queued(n) == \E k \in 1..Len(queue) : queue[k].sn = n
Finished(n) ==
    \E i \in 1..Len(hist) :
        hist[i].sn = n /\ hist[i].status \in {"committed", "dropped"}
DurationOnly == file_structure_format = <<"{duration_seconds}">>
C18_DurationNeverNegative ==
    (pc = "transferring" /\ DurationOnly) =>
        /\ AfterRoot(destination) = FloatStr(event.end - event.start)
        /\ Head(AfterRoot(destination)) # "-"

\* C18 as amended: the duration_seconds substituted into the template is end
\* minus start in seconds; it is negative exactly when the end is earlier
\* than the start.
C18_DurationIsEndMinusStart ==
    (pc = "transferring" /\ DurationOnly) =>
        /\ AfterRoot(destination) = FloatStr(event.end - event.start)
        /\ (Head(AfterRoot(destination)) = "-") <=> (event.end < event.start)
C18_Witness ==
    /\ pc = "transferring"
    /\ DurationOnly
    /\ event.end < event.start
    /\ AfterRoot(destination) = <<"-", "5", ".", "0">>

\* C19: when the queue's get raises, in any iteration and also in the very
\* first one before any item was dequeued, the handler completes without
\* raising and the loop goes back to waiting on the queue; start() does not
\* terminate.
C19_SurvivesFailingGet ==
    [][(pc = "handling" /\ exc.phase = "fetching") => pc' = "idle"]_vars

\* C20: for every committed row of backups, remote + ":" + path is exactly
\* the destination handed to the transfer process for the same item in the
\* same iteration, and that destination was resolved from that item's own
\* event, never from a previous item's.
EventOf(id) == CHOOSE e \in Events : e.id = id
ResolvedFor(id) ==
    GenerateFilePath(rclone_destination, file_structure_format, EventOf(id),
                     CameraName(EventOf(id).camera_id))
C20_RecordedIsTransferred ==
    \A k \in 1..Len(committed.backups) :
        LET b == committed.backups[k]
            h == hist[b.by]
        IN  /\ b.id = h.id
            /\ h.spawns = 1
            /\ b.remote \o <<":">> \o b.path = h.sent
            /\ ResolvedFor(h.id).ok
            /\ h.sent = ResolvedFor(h.id).value
C20_Witness ==
    \E j, k \in 1..Len(committed.backups) :
        /\ committed.backups[j].by < committed.backups[k].by
        /\ committed.backups[j].id # committed.backups[k].id
        /\ committed.backups[j].path # committed.backups[k].path
        /\ hist[committed.backups[k].by].sent # hist[committed.backups[j].by].sent

====
